---- MODULE Spec2Model ----
(***************************************************************************)
(* Model of the G-code lexer and block parser of gcode/src/parser.rs.      *)
(*                                                                         *)
(* A character is a one-character string, a string is a sequence of        *)
(* characters.  Option<T> is a sequence of length 0 (None) or 1 (Some).    *)
(* A Result is a record with a "kind" field.                               *)
(***************************************************************************)
EXTENDS Integers, Sequences, FiniteSets, TLC

(***************************************************************************)
(* Bounds of the checked inputs.                                           *)
(***************************************************************************)
\* longest input text (characters, line terminators included) enumerated
MaxText == 4
\* calls of Parser.next made after the input is exhausted
ExtraCalls == 1

(***************************************************************************)
(* Characters.                                                             *)
(***************************************************************************)
UpperSeq ==
  <<"A","B","C","D","E","F","G","H","I","J","K","L","M",
    "N","O","P","Q","R","S","T","U","V","W","X","Y","Z">>

LowerSeq ==
  <<"a","b","c","d","e","f","g","h","i","j","k","l","m",
    "n","o","p","q","r","s","t","u","v","w","x","y","z">>

DigitSeq == <<"0","1","2","3","4","5","6","7","8","9">>

Range(s) == {s[i] : i \in 1..Len(s)}

UpperLetters == Range(UpperSeq)

LowerLetters == Range(LowerSeq)

Digits == Range(DigitSeq)

\* a numeric character outside ASCII (U+00B2, two bytes in UTF-8)
OtherNumeric == {"²"}

\* char::is_ascii_alphabetic
is_ascii_alphabetic(c) == c \in UpperLetters \cup LowerLetters

\* char::is_numeric (Unicode numeric, not only the ASCII digits)
is_numeric(c) == c \in Digits \cup OtherNumeric

\* char::to_ascii_uppercase
to_ascii_uppercase(c) ==
  IF c \in LowerLetters
    THEN UpperSeq[CHOOSE i \in 1..Len(LowerSeq) : LowerSeq[i] = c]
    ELSE c

\* char::is_whitespace, as used by str::trim
is_whitespace(c) == c \in {" ", "\t", "\n", "\r"}

\* every character the model knows
Char ==
  UpperLetters \cup LowerLetters \cup Digits \cup OtherNumeric \cup
  {" ", "\t", "\n", "\r", "(", ")", ";", "/", "%", "+", "-", ".", "@", "*", "#"}

\* bytes of the UTF-8 encoding of a character
len_utf8(c) == IF c \in OtherNumeric THEN 2 ELSE 1

RECURSIVE ByteLen(_)
ByteLen(s) == IF s = <<>> THEN 0 ELSE len_utf8(Head(s)) + ByteLen(Tail(s))

(***************************************************************************)
(* lexer::Reader: a character cursor that skips spaces and tabs.           *)
(* A reader is [input: the characters not yet read, current: Option char]. *)
(***************************************************************************)
\* mutant: newlines are skipped like spaces and tabs
RECURSIVE lexer_Reader_next_skips_newline(_)
lexer_Reader_next_skips_newline(input) ==
  IF input = <<>>
    THEN [input |-> <<>>, current |-> <<>>]
    ELSE IF Head(input) = " " \/ Head(input) = "\t" \/ Head(input) = "\n"
           THEN lexer_Reader_next_skips_newline(Tail(input))
           ELSE [input |-> Tail(input), current |-> <<Head(input)>>]

\* mutant: only spaces are skipped, tabs are handed out
RECURSIVE lexer_Reader_next_keeps_tabs(_)
lexer_Reader_next_keeps_tabs(input) ==
  IF input = <<>>
    THEN [input |-> <<>>, current |-> <<>>]
    ELSE IF Head(input) = " "
           THEN lexer_Reader_next_keeps_tabs(Tail(input))
           ELSE [input |-> Tail(input), current |-> <<Head(input)>>]

RECURSIVE lexer_Reader_next(_)
lexer_Reader_next(input) ==
  IF input = <<>>
    THEN [input |-> <<>>, current |-> <<>>]
    ELSE IF Head(input) = " " \/ Head(input) = "\t"
           THEN lexer_Reader_next(Tail(input))
           ELSE [input |-> Tail(input), current |-> <<Head(input)>>]

lexer_Reader_new(input) == lexer_Reader_next(input)

current(reader) == reader.current

\* the reader after enhance(); the character returned is current(reader)[1]
enhance(reader) == lexer_Reader_next(reader.input)

(***************************************************************************)
(* Numbers.  An f64 obtained from a decimal literal is mant / 10^scale     *)
(* with trailing zeros of the fraction stripped, so equal values have      *)
(* equal representations (-0.0 == 0.0 as under PartialEq).                 *)
(***************************************************************************)
DigitVal(c) == (CHOOSE i \in 1..Len(DigitSeq) : DigitSeq[i] = c) - 1

RECURSIVE ToNat(_)
ToNat(ds) ==
  IF ds = <<>> THEN 0
  ELSE 10 * ToNat(SubSeq(ds, 1, Len(ds) - 1)) + DigitVal(ds[Len(ds)])

RECURSIVE Normalize(_, _)
Normalize(m, s) ==
  IF s > 0 /\ m % 10 = 0 THEN Normalize(m \div 10, s - 1)
  ELSE [mant |-> m, scale |-> s]

IsDigit(c) == c \in Digits

IsDot(c) == c = "."

\* the value of an unsigned literal, as an Option: digits with at most one
\* dot and at least one digit
parse_unsigned(body) ==
  IF /\ Len(SelectSeq(body, IsDigit)) >= 1
     /\ Len(SelectSeq(body, IsDot)) <= 1
     /\ Len(SelectSeq(body, IsDigit)) + Len(SelectSeq(body, IsDot)) = Len(body)
    THEN <<Normalize(ToNat(SelectSeq(body, IsDigit)),
                     IF SelectSeq(body, IsDot) = <<>> THEN 0
                     ELSE Len(body) - (CHOOSE i \in 1..Len(body) : body[i] = "."))>>
    ELSE <<>>

Negated(v) ==
  IF v = <<>> THEN <<>> ELSE <<[mant |-> 0 - v[1].mant, scale |-> v[1].scale]>>

\* str::parse::<f64> on a text of digit, sign and dot characters:
\* Option of the value
parse_f64(text) ==
  IF text # <<>> /\ text[1] = "-" THEN Negated(parse_unsigned(Tail(text)))
  ELSE IF text # <<>> /\ text[1] = "+" THEN parse_unsigned(Tail(text))
  ELSE parse_unsigned(text)

(***************************************************************************)
(* Tokens, lexer errors and the results of Lexer.next.                     *)
(***************************************************************************)
NoValue == [mant |-> 0, scale |-> 0]

BlockDelete == [type |-> "BlockDelete", letter |-> "", value |-> NoValue]

Demarcation == [type |-> "Demarcation", letter |-> "", value |-> NoValue]

Letter(c) == [type |-> "Letter", letter |-> c, value |-> NoValue]

Number(v) == [type |-> "Number", letter |-> "", value |-> v]

IllegalSymbol(c) == [type |-> "IllegalSymbol", symbol |-> c, text |-> <<>>]

InvalidNumber(t) == [type |-> "InvalidNumber", symbol |-> "", text |-> t]

\* Ok(Some(token))
LexToken(t) == [kind |-> "Token", tok |-> <<t>>, err |-> <<>>]

\* Ok(None)
LexNone == [kind |-> "None", tok |-> <<>>, err |-> <<>>]

\* Err(e)
LexErr(e) == [kind |-> "Err", tok |-> <<>>, err |-> <<e>>]

\* the call does not return: ArrayString::push panics on a full buffer
LexPanic == [kind |-> "Panic", tok |-> <<>>, err |-> <<>>]

(***************************************************************************)
(* lexer::Lexer.  A predicate is the set of characters it accepts.         *)
(***************************************************************************)
\* capacity of the number buffer, ArrayString<[u8; 32]>
NumberBufferCap == 32

NotNewline == Char \ {"\n"}

ClosingParen == {")"}

NumberChars == {c \in Char : is_numeric(c)} \cup {"+", "-", "."}

\* the acceptor is called on c before the characters accepted later
Accepted(c, rest) ==
  [reader |-> rest.reader, accepted |-> <<c>> \o rest.accepted]

\* the reader after the loop, and the characters handed to the acceptor
RECURSIVE accept_while(_, _)
accept_while(reader, predicate) ==
  IF current(reader) # <<>> /\ current(reader)[1] \in predicate
    THEN Accepted(current(reader)[1],
                  accept_while(enhance(reader), predicate))
    ELSE [reader |-> reader, accepted |-> <<>>]

\* mutant: without the closing character nothing is consumed
RECURSIVE accept_until_needs_close(_, _)
accept_until_needs_close(reader, predicate) ==
  IF \A i \in 1..Len(reader.current \o reader.input) :
       (reader.current \o reader.input)[i] \notin predicate
    THEN [reader |-> reader, accepted |-> <<>>]
    ELSE IF current(reader)[1] \notin predicate
           THEN Accepted(current(reader)[1],
                         accept_until_needs_close(enhance(reader), predicate))
           ELSE [reader |-> enhance(reader), accepted |-> <<>>]

RECURSIVE accept_until(_, _)
accept_until(reader, predicate) ==
  IF current(reader) = <<>>
    THEN [reader |-> reader, accepted |-> <<>>]
    ELSE IF current(reader)[1] \notin predicate
           THEN Accepted(current(reader)[1],
                         accept_until(enhance(reader), predicate))
           ELSE [reader |-> enhance(reader), accepted |-> <<>>]

tok_block_delete(reader) ==
  [reader |-> enhance(reader), res |-> LexToken(BlockDelete)]

tok_demarcation(reader) ==
  [reader |-> enhance(reader), res |-> LexToken(Demarcation)]

\* mutant: the letter is not upper-cased
tok_letter_keeps_case(reader) ==
  [reader |-> enhance(reader), res |-> LexToken(Letter(current(reader)[1]))]

tok_letter(reader) ==
  [reader |-> enhance(reader),
   res |-> LexToken(Letter(to_ascii_uppercase(current(reader)[1])))]

\* buffer.parse(): Number(value) or InvalidNumber with the buffer's text
parse_buffer(buffer, parsed) ==
  IF parsed # <<>> THEN LexToken(Number(parsed[1]))
  ELSE LexErr(InvalidNumber(buffer))

\* the buffer filled by the accepted run: push panics past its capacity
number_token(run) ==
  [reader |-> run.reader,
   res |-> IF ByteLen(run.accepted) > NumberBufferCap THEN LexPanic
           ELSE parse_buffer(run.accepted, parse_f64(run.accepted))]

tok_number(reader) == number_token(accept_while(reader, NumberChars))

skip_line_comment(reader) ==
  IF current(reader) = <<";">>
    THEN accept_while(reader, NotNewline).reader ELSE reader

\* mutant: the closing parenthesis of a block comment is not consumed
skip_block_comment_leaves_paren(reader) ==
  IF current(reader) = <<"(">>
    THEN accept_while(reader, Char \ ClosingParen).reader ELSE reader

skip_block_comment(reader) ==
  IF current(reader) = <<"(">>
    THEN accept_until(reader, ClosingParen).reader ELSE reader

\* mutant: comments are skipped for as long as one follows
RECURSIVE skip_comments_all(_)
skip_comments_all(reader) ==
  IF current(reader) = <<";">>
    THEN skip_comments_all(accept_while(reader, NotNewline).reader)
  ELSE IF current(reader) = <<"(">>
    THEN skip_comments_all(accept_until(reader, ClosingParen).reader)
  ELSE reader

\* the comment skipping of Lexer::next: one line comment, then one block
\* comment
skip_comments(reader) == skip_block_comment(skip_line_comment(reader))

\* mutant: the illegal symbol is consumed
generate_token_consumes_illegal(reader) ==
  IF current(reader) = <<>> THEN [reader |-> reader, res |-> LexNone]
  ELSE CASE current(reader)[1] = "/" -> tok_block_delete(reader)
         [] current(reader)[1] = "%" -> tok_demarcation(reader)
         [] /\ current(reader)[1] \notin {"/", "%"}
            /\ is_ascii_alphabetic(current(reader)[1]) -> tok_letter(reader)
         [] current(reader)[1] \in {"+", "-", "."} -> tok_number(reader)
         [] /\ current(reader)[1] \notin {"+", "-", "."}
            /\ is_numeric(current(reader)[1]) -> tok_number(reader)
         [] OTHER ->
              [reader |-> enhance(reader),
               res |-> LexErr(IllegalSymbol(current(reader)[1]))]

\* the token generation of Lexer::next
generate_token(reader) ==
  IF current(reader) = <<>> THEN [reader |-> reader, res |-> LexNone]
  ELSE CASE current(reader)[1] = "/" -> tok_block_delete(reader)
         [] current(reader)[1] = "%" -> tok_demarcation(reader)
         [] /\ current(reader)[1] \notin {"/", "%"}
            /\ is_ascii_alphabetic(current(reader)[1]) -> tok_letter(reader)
         [] current(reader)[1] \in {"+", "-", "."} -> tok_number(reader)
         [] /\ current(reader)[1] \notin {"+", "-", "."}
            /\ is_numeric(current(reader)[1]) -> tok_number(reader)
         [] OTHER ->
              [reader |-> reader,
               res |-> LexErr(IllegalSymbol(current(reader)[1]))]

\* Lexer::next: the lexer's reader after the call, and the value returned
Lexer_next(reader) == generate_token(skip_comments(reader))

Lexer_new(input) == lexer_Reader_new(input)

(***************************************************************************)
(* parser: words, blocks, parser errors and the results of Parser.next.    *)
(***************************************************************************)
Word(m, v) == [mnemonic |-> m, value |-> v]

Block(ln, del, ws, l) ==
  [line_number |-> ln, deleted |-> del, words |-> ws, line |-> l]

\* the block Parser::next starts from
NewBlock(line) == Block(<<>>, FALSE, <<>>, line)

\* Ok(Some(block))
OkBlock(b) == [kind |-> "Block", block |-> <<b>>, token |-> <<>>, lexerr |-> <<>>]

\* Ok(None)
OkNone == [kind |-> "None", block |-> <<>>, token |-> <<>>, lexerr |-> <<>>]

\* Err(ParserError::SyntaxError(e))
SyntaxError(e) ==
  [kind |-> "SyntaxError", block |-> <<>>, token |-> <<>>, lexerr |-> <<e>>]

\* Err(ParserError::UnexpectedToken { token })
UnexpectedToken(t) ==
  [kind |-> "UnexpectedToken", block |-> <<>>, token |-> <<t>>, lexerr |-> <<>>]

\* Err(ParserError::MissingValue)
MissingValue ==
  [kind |-> "MissingValue", block |-> <<>>, token |-> <<>>, lexerr |-> <<>>]

\* the call does not return (a panic of the lexer unwinds through it)
Panicked == [kind |-> "Panic", block |-> <<>>, token |-> <<>>, lexerr |-> <<>>]

\* the ? operator on a failed lexer.next(): From<LexerError> for ParserError
from(lexres) ==
  IF lexres.kind = "Panic" THEN Panicked ELSE SyntaxError(lexres.err[1])

LexFailed(lexres) == lexres.kind \in {"Err", "Panic"}

\* mutant: the first N word of a line wins
store_word_first_line_number(block, letter, value) ==
  IF letter = "N"
    THEN IF block.line_number = <<>>
           THEN [block EXCEPT !.line_number = <<value>>] ELSE block
    ELSE [block EXCEPT !.words = Append(@, Word(letter, value))]

\* mutant: a word is put in front of the earlier ones
store_word_in_front(block, letter, value) ==
  IF letter = "N"
    THEN [block EXCEPT !.line_number = <<value>>]
    ELSE [block EXCEPT !.words = <<Word(letter, value)>> \o @]

\* a Letter followed by Number(value): the line number or one more word
store_word(block, letter, value) ==
  IF letter = "N"
    THEN [block EXCEPT !.line_number = <<value>>]
    ELSE [block EXCEPT !.words = Append(@, Word(letter, value))]

\* mutant: the flag is not set
mark_deleted_forgotten(block) == block

\* the leading BlockDelete
mark_deleted(block) == [block EXCEPT !.deleted = TRUE]

\* the step of the loop either returns from Parser::next or goes round again
Return(res) == [done |-> TRUE, res |-> res]

Continue(lexer, cur, block) ==
  [done |-> FALSE, lexer |-> lexer, cur |-> cur, block |-> block]

\* mutant: an error of the look-ahead ends the line as its end would
look_ahead_swallows_error(n, block) ==
  IF LexFailed(n.res) THEN Return(OkBlock(block))
  ELSE Continue(n.reader, n.res.tok, block)

\* the look-ahead fetched after a complete word or after the BlockDelete
look_ahead(n, block) ==
  IF LexFailed(n.res) THEN Return(from(n.res))
  ELSE Continue(n.reader, n.res.tok, block)

\* mutant: a letter at the end of the line is dropped silently
after_letter_drops_letter(n1, letter, block) ==
  IF LexFailed(n1.res) THEN Return(from(n1.res))
  ELSE IF n1.res.tok = <<>> THEN Return(OkBlock(block))
  ELSE IF n1.res.tok[1].type = "Number"
    THEN look_ahead(Lexer_next(n1.reader),
                    store_word(block, letter, n1.res.tok[1].value))
    ELSE Return(UnexpectedToken(n1.res.tok[1]))

\* mutant: whatever follows a letter and is not a number is a missing value
after_letter_missing_value(n1, letter, block) ==
  IF LexFailed(n1.res) THEN Return(from(n1.res))
  ELSE IF n1.res.tok # <<>> /\ n1.res.tok[1].type = "Number"
    THEN look_ahead(Lexer_next(n1.reader),
                    store_word(block, letter, n1.res.tok[1].value))
    ELSE Return(MissingValue)

\* mutant: the error carries the letter, not the token that followed it
after_letter_reports_letter(n1, letter, block) ==
  IF LexFailed(n1.res) THEN Return(from(n1.res))
  ELSE IF n1.res.tok = <<>> THEN Return(MissingValue)
  ELSE IF n1.res.tok[1].type = "Number"
    THEN look_ahead(Lexer_next(n1.reader),
                    store_word(block, letter, n1.res.tok[1].value))
    ELSE Return(UnexpectedToken(Letter(letter)))

\* the match on the token n1 fetched after a Letter
after_letter(n1, letter, block) ==
  IF LexFailed(n1.res) THEN Return(from(n1.res))
  ELSE IF n1.res.tok = <<>> THEN Return(MissingValue)
  ELSE IF n1.res.tok[1].type = "Number"
    THEN look_ahead(Lexer_next(n1.reader),
                    store_word(block, letter, n1.res.tok[1].value))
    ELSE Return(UnexpectedToken(n1.res.tok[1]))

\* the arm Some(Token::Letter(letter)) of the loop
letter_arm(lexer, letter, block) ==
  after_letter(Lexer_next(lexer), letter, block)

RECURSIVE parse_loop(_, _, _)

\* return, or go round the loop again
loop_step(step) ==
  IF step.done THEN step.res
  ELSE parse_loop(step.lexer, step.cur, step.block)

\* the loop of Parser::next; cur is the look-ahead Option<Token>
parse_loop(lexer, cur, block) ==
  IF cur = <<>> THEN OkBlock(block)
  ELSE IF cur[1].type = "Letter"
    THEN loop_step(letter_arm(lexer, cur[1].letter, block))
    ELSE UnexpectedToken(cur[1])

\* the match on the first token n0 of the line
first_token(n0, block) ==
  IF LexFailed(n0.res) THEN Return(from(n0.res))
  ELSE IF n0.res.tok = <<BlockDelete>>
    THEN look_ahead(Lexer_next(n0.reader), mark_deleted(block))
    ELSE Continue(n0.reader, n0.res.tok, block)

\* the first token and the optional BlockDelete, before the loop
line_start(lexer, block) == first_token(Lexer_next(lexer), block)

\* Parser::next on the line it pulled from its input
parse_line(line) == loop_step(line_start(Lexer_new(line), NewBlock(line)))

(***************************************************************************)
(* str::trim, which parser::Reader::next applies to the lines it hands     *)
(* out; Parser::next reads its input directly, not through that Reader.    *)
(***************************************************************************)
RECURSIVE trim_start(_)
trim_start(l) ==
  IF l # <<>> /\ is_whitespace(Head(l)) THEN trim_start(Tail(l)) ELSE l

RECURSIVE trim_end(_)
trim_end(l) ==
  IF l # <<>> /\ is_whitespace(l[Len(l)])
    THEN trim_end(SubSeq(l, 1, Len(l) - 1)) ELSE l

trim(l) == trim_end(trim_start(l))

(***************************************************************************)
(* Token streams of a line and the per-line state machine over them.      *)
(***************************************************************************)
\* the tokens successive Lexer.next calls return, up to the first call that
\* returns no token, and what that call returned
RECURSIVE lex_stream(_)
lex_stream(reader) ==
  LET n == Lexer_next(reader)
  IN IF n.res.kind = "Token"
       THEN LET rest == lex_stream(n.reader)
            IN [toks |-> <<n.res.tok[1]>> \o rest.toks, last |-> rest.last]
       ELSE [toks |-> <<>>, last |-> n.res]

TokensOf(line) == lex_stream(Lexer_new(line))

\* the per-line state machine over tokens
Step(state, type) ==
  CASE state \in {"Start"} /\ type = "BlockDelete" -> "AfterDelete"
    [] state \in {"Start", "AfterDelete", "AfterWord"} /\ type = "Letter"
         -> "AwaitNumber"
    [] state = "AwaitNumber" /\ type = "Number" -> "AfterWord"
    [] OTHER -> "Reject"

RECURSIVE StateAfter(_, _)
StateAfter(toks, k) ==
  IF k = 0 THEN "Start" ELSE Step(StateAfter(toks, k - 1), toks[k].type)

\* the line lexes to its end without error
LexesToEnd(line) == TokensOf(line).last.kind = "None"

EndState(line) == StateAfter(TokensOf(line).toks, Len(TokensOf(line).toks))

\* a line the state machine accepts
Valid(line) ==
  LexesToEnd(line) /\ EndState(line) \in {"Start", "AfterDelete", "AfterWord"}

Contains(line, c) == \E i \in 1..Len(line) : line[i] = c

(***************************************************************************)
(* The input of the parser: the lines of a text, as the callers obtain     *)
(* them with str::lines.                                                   *)
(***************************************************************************)
RECURSIVE lines(_)
lines(text) ==
  IF text = <<>> THEN <<>>
  ELSE IF \E i \in 1..Len(text) : text[i] = "\n"
    THEN LET i == CHOOSE k \in 1..Len(text) :
                    text[k] = "\n" /\ \A j \in 1..(k - 1) : text[j] # "\n"
         IN <<SubSeq(text, 1, i - 1)>> \o lines(SubSeq(text, i + 1, Len(text)))
    ELSE <<text>>

\* the characters of the enumerated texts
ParserChars == {"G", "N", "1", "-", " ", "(", ")", ";", "/", "\n"}

Texts == UNION {[1..n -> ParserChars] : n \in 0..MaxText}

\* test_parser_simple
Scenario_simple ==
  <<<<"G","1">>>>

\* test_parser_multiple
Scenario_multiple ==
  <<<<"G","1"," ","X","1","2",".","3","4"," ","Y","-","4","5",".","6",
    "7">>>>

\* test_parser_line_number
Scenario_line_number ==
  <<<<"G","1"," ","N","9","8","7","6"," ","X","1","2",".","3","4"," ","Y",
    "-","4","5",".","6","7">>>>

\* test_parser_deleted
Scenario_deleted ==
  <<<<"/"," ","G","1"," ","X","1","0","0">>>>

\* the RS274NGC example of test_lex_example_01, as a line
Scenario_example_01 ==
  <<<<"g","0","x"," ","+","0","."," ","1","2","3","4","y"," ","7">>>>

\* the line of test_lex_block_comment
Scenario_block_comment ==
  <<<<"G"," ","(","i","g","n","o","r","e","d",")"," ","G">>>>

\* the first two lines of test_parser_multiline
Scenario_multiline ==
  <<<<"N","0","0","1","0"," ","G","1"," ","X","0","0","0"," ","Y","0","0",
    "0">>, <<"N","0","0","2","0"," ","G","1"," ","X","1","0","0"," ","Y",
    "0","0","0">>>>

\* two N words, one in lower case
Scenario_two_line_numbers ==
  <<<<"n","1"," ","G","2"," ","N","3">>>>

\* a line with surrounding spaces and tabs
Scenario_surrounding_whitespace ==
  <<<<" ","\t","G","1","\t"," ">>>>

\* a number after a complete word
Scenario_number_after_word ==
  <<<<"G","1","(","c",")","1">>>>

\* a block-delete followed only by whitespace and a comment
Scenario_deleted_comment ==
  <<<<"/"," ","(","c",")">>>>

\* three lines, the second one failing
Scenario_failing_middle_line ==
  <<<<"G","1">>, <<"G">>, <<"G","2">>>>

\* a demarcation at the start of a line, after a letter, after a word and
\* after the block-delete
Scenario_demarcation ==
  <<<<"%">>, <<"G","%">>, <<"G","1"," ","%">>, <<"/","%">>>>

\* line numbers written with a lower-case n
Scenario_lower_line_number ==
  <<<<"n","1">>, <<"G","1","n","2">>, <<"n","1","n","2">>, <<"n">>>>

Scenarios ==
  {Scenario_simple,
   Scenario_multiple,
   Scenario_line_number,
   Scenario_deleted,
   Scenario_example_01,
   Scenario_block_comment,
   Scenario_multiline,
   Scenario_two_line_numbers,
   Scenario_surrounding_whitespace,
   Scenario_number_after_word,
   Scenario_deleted_comment,
   Scenario_failing_middle_line,
   Scenario_demarcation,
   Scenario_lower_line_number}

\* for every ASCII letter c, the line "c1" in lower case and then in upper
\* case
CaseInputs ==
  {<< <<c, "1">>, <<to_ascii_uppercase(c), "1">> >> : c \in LowerLetters}

\* length of the enumerated comment-free lines
MaxBase == 3

BaseChars == {"G", "N", "1", "/", " "}

\* the valid lines without comments
BaseLines ==
  {l \in UNION {[1..n -> BaseChars] : n \in 0..MaxBase} : Valid(l)}

\* block comments: the text between the parentheses is free of ")"
BlockComments ==
  {<<"(", ")">>, <<"(", "G", ")">>, <<"(", " ", "1", ")">>,
   <<"(", ";", ")">>, <<"(", "(", ")">>, <<"(", "/", "@", ")">>}

\* line comments
LineComments ==
  {<<";">>, <<";", "G">>, <<";", " ", "1">>, <<";", "(">>, <<";", ")">>,
   <<";", ";", "@">>}

\* the characters lexer::Reader skips
SpaceOrTab == {" ", "\t"}

Insert(l, p, c) == SubSeq(l, 1, p) \o c \o SubSeq(l, p + 1, Len(l))

\* the last character of l[1..p] that is no space or tab, if any
RECURSIVE PrevSignificant(_, _)
PrevSignificant(l, p) ==
  IF p = 0 THEN <<>>
  ELSE IF l[p] \in SpaceOrTab THEN PrevSignificant(l, p - 1)
  ELSE <<l[p]>>

\* the first character of l[p+1..] that is no space or tab, if any
RECURSIVE NextSignificant(_, _)
NextSignificant(l, p) ==
  IF p >= Len(l) THEN <<>>
  ELSE IF l[p + 1] \in SpaceOrTab THEN NextSignificant(l, p + 1)
  ELSE <<l[p + 1]>>

IsNumberChar(oc) == oc # <<>> /\ oc[1] \in NumberChars

\* position p of l (after p characters) is not inside a number's run
InterToken(l, p) ==
  ~(IsNumberChar(PrevSignificant(l, p)) /\ IsNumberChar(NextSignificant(l, p)))

\* a valid comment-free line, and the same line with one block comment
\* inserted between two tokens or one line comment appended
CommentInputs ==
  {<<l, Insert(l, p, c)>> :
     <<l, p, c>> \in {<<l, p, c>> \in
                        BaseLines \X (0..MaxBase) \X BlockComments :
                          p <= Len(l) /\ InterToken(l, p)}}
  \cup {<<l, l \o c>> : <<l, c>> \in BaseLines \X LineComments}

Inputs ==
  {lines(t) : t \in Texts} \cup Scenarios \cup CaseInputs \cup CommentInputs

(***************************************************************************)
(* State.                                                                  *)
(*   src    the lines the parser was constructed over (never changes)      *)
(*   input  Parser.input: the lines not yet pulled                         *)
(*   out    the values returned by the calls of Parser.next so far         *)
(*   ret    Option of the value returned by parse_all                      *)
(* and, for a lexer or a lexer::Reader used on its own,                    *)
(*   chars  the characters it was constructed over (never changes)         *)
(*   cursor the Reader: Lexer.reader, or the Reader itself                 *)
(*   log    one entry per call of Lexer.next or enhance so far: the value  *)
(*          returned and the unread characters before and after the call   *)
(*   peeked what the calls of current since the last enhance returned      *)
(***************************************************************************)
VARIABLES src, input, out, ret, chars, cursor, log, peeked

vars == <<src, input, out, ret, chars, cursor, log, peeked>>

parserVars == <<src, input, out, ret>>

lexerVars == <<chars, cursor, log, peeked>>

\* no call of current yet
NotPeeked == [seen |-> FALSE, value |-> <<>>]

\* Parser::new
Init ==
  /\ src \in Inputs
  /\ input = src
  /\ out = <<>>
  /\ ret = <<>>
  /\ chars = <<>>
  /\ cursor = lexer_Reader_new(<<>>)
  /\ log = <<>>
  /\ peeked = NotPeeked

\* mutant: lines that are empty after trimming are skipped
RECURSIVE Parser_next_step_skips_empty(_)
Parser_next_step_skips_empty(inp) ==
  IF inp = <<>>
    THEN [input |-> inp, res |-> OkNone]
    ELSE IF trim(Head(inp)) = <<>>
           THEN Parser_next_step_skips_empty(Tail(inp))
           ELSE [input |-> Tail(inp), res |-> parse_line(Head(inp))]

\* Parser::next as a function of the parser's input: the input left and
\* the value returned
Parser_next_step(inp) ==
  IF inp = <<>>
    THEN [input |-> inp, res |-> OkNone]
    ELSE [input |-> Tail(inp), res |-> parse_line(Head(inp))]

\* a panic ended the program: no call follows it
Crashed == out # <<>> /\ out[Len(out)].kind = "Panic"

\* one call of Parser::next by the caller
Parser_next ==
  /\ ret = <<>>
  /\ Len(out) < Len(src) + ExtraCalls
  /\ ~Crashed
  /\ \E n \in {Parser_next_step(input)} :
       /\ input' = n.input
       /\ out' = Append(out, n.res)
  /\ UNCHANGED <<src, ret, lexerVars>>

\* Ok(blocks)
AllOk(blocks) == [kind |-> "Ok", blocks |-> blocks, error |-> <<>>]

\* Err(error), error being the failed result of Parser::next
AllErr(res) == [kind |-> "Err", blocks |-> <<>>, error |-> <<res>>]

\* parse_all does not return
AllPanic == [kind |-> "Panic", blocks |-> <<>>, error |-> <<>>]

\* the blocks of the lines after a parsed one are appended to its block
Collected(res, rest) ==
  [input |-> rest.input,
   out |-> <<res>> \o rest.out,
   ret |-> IF rest.ret.kind = "Ok"
             THEN AllOk(res.block \o rest.ret.blocks) ELSE rest.ret]

RECURSIVE parse_all_goes_on(_)

\* mutant: a failing line is skipped and the parsing goes on
all_step_goes_on(n) ==
  IF n.res.kind = "None"
    THEN [input |-> n.input, out |-> <<n.res>>, ret |-> AllOk(<<>>)]
    ELSE Collected(n.res, parse_all_goes_on(n.input))

parse_all_goes_on(inp) == all_step_goes_on(Parser_next_step(inp))

RECURSIVE parse_all(_)

\* the match of parse_all on the value n that Parser::next returned
all_step(n) ==
  IF n.res.kind = "None"
    THEN [input |-> n.input, out |-> <<n.res>>, ret |-> AllOk(<<>>)]
  ELSE IF n.res.kind = "Block"
    THEN Collected(n.res, parse_all(n.input))
  ELSE IF n.res.kind = "Panic"
    THEN [input |-> n.input, out |-> <<n.res>>, ret |-> AllPanic]
    ELSE [input |-> n.input, out |-> <<n.res>>, ret |-> AllErr(n.res)]

\* parse_all over the parser's input: the input left, the values the calls
\* of Parser::next returned, and the value parse_all returns
parse_all(inp) == all_step(Parser_next_step(inp))

\* one call of parse_all on a fresh parser
ParseAll ==
  /\ out = <<>>
  /\ ret = <<>>
  /\ \E r \in {parse_all(input)} :
       /\ input' = r.input
       /\ out' = r.out
       /\ ret' = <<r.ret>>
  /\ UNCHANGED <<src, lexerVars>>

Next == Parser_next \/ ParseAll

Spec == Init /\ [][Next]_vars

(***************************************************************************)
(* The lexer and the reader used on their own, as the lexer tests use      *)
(* them.                                                                   *)
(***************************************************************************)
\* length of the enumerated lexer inputs
MaxLexText == 4

\* calls of Lexer.next allowed beyond the number of input characters
LexExtraCalls == 2

\* length of the enumerated reader inputs
MaxReaderText == 5

LexChars == {"g", "1", "-", ".", " ", "(", ")", ";", "/", "\n"}

LexTexts == UNION {[1..n -> LexChars] : n \in 0..MaxLexText}

ReaderChars == {"x", " ", "\t", "\n"}

ReaderTexts == UNION {[1..n -> ReaderChars] : n \in 0..MaxReaderText}

\* n times the character c
Repeat(c, n) == [i \in 1..n |-> c]

\* test_lex_empty
LexScenario_empty ==
  <<>>

\* the long input of test_lex_number
LexScenario_number ==
  <<"X","5"," ","X","+","5"," ","X","-","5"," ","X","5",".","0"," ","X","-",
    "5",".","0"," ","X","-",".","3"," ","X",".","7"," ","X","+","2","."," ",
    "X"," ","+"," ","4"," ","2"," ","."," ","3">>

\* test_lex_whitespaces
LexScenario_whitespaces ==
  <<" ","/"," ","N","1","2","3"," ","G","1"," "," ">>

\* test_lex_example_01
LexScenario_example_01 ==
  <<"g","0","x"," ","+","0","."," ","1","2","3","4","y"," ","7">>

\* the input of test_lex_example_01 in upper case
LexScenario_example_01_upper ==
  <<"G","0","X"," ","+","0","."," ","1","2","3","4","Y"," ","7">>

\* test_lex_block_comment
LexScenario_block_comment ==
  <<"G"," ","(","i","g","n","o","r","e","d",")"," ","G">>

\* test_lex_line_comment
LexScenario_line_comment ==
  <<"G"," ",";","i","g","n","o","r","e","d"," ","G">>

\* a word in lower case
LexScenario_g0 ==
  <<"g","0">>

\* the same word in upper case
LexScenario_G0 ==
  <<"G","0">>

\* a number written with tabs inside
LexScenario_tabs ==
  <<"G","\t","4","\t","2"," ",".","\t","3">>

\* a run with signs after its first character
LexScenario_signs ==
  <<"+","-","+","5"," ","1","-","2">>

\* a run with two dots
LexScenario_two_dots ==
  <<"1",".","2",".","3">>

\* a run with a numeric character that is no ASCII digit
LexScenario_superscript ==
  <<"1","²">>

\* a block comment followed by a block comment
LexScenario_two_block_comments ==
  <<"G"," ","(","a",")"," ","(","b",")"," ","1">>

\* a block comment followed by a line comment
LexScenario_block_then_line_comment ==
  <<"G","1"," ","(","a",")"," ",";","b">>

\* a line comment, a newline and a block comment
LexScenario_line_then_block_comment ==
  <<"G","1"," ",";","a","\n","(","b",")"," ","G","2">>

\* a block comment that is not closed
LexScenario_unterminated ==
  <<"G","1"," ","(","a"," ","G","2">>

\* a run of digits that fills the number buffer exactly
LexScenario_full_buffer ==
  Repeat("0", NumberBufferCap - 1) \o <<"1">>

\* a run of digits one longer than the number buffer
LexScenario_long_digits ==
  <<"G">> \o Repeat("0", NumberBufferCap) \o <<"1">>

\* a run of dots one longer than the number buffer, written with spaces
LexScenario_long_dots ==
  Repeat(".", NumberBufferCap) \o <<" ", ".", " ", "G">>

\* test_lex_demarcation
LexScenario_demarcation ==
  <<"%">>

\* a demarcation amid words, comments and illegal symbols
LexScenario_demarcation_in_line ==
  <<"%", " ", "g", "1", "%", "(", "%", ")", "%", ")", "%">>

LexScenarios ==
  {LexScenario_empty,
   LexScenario_demarcation,
   LexScenario_demarcation_in_line,
   LexScenario_number,
   LexScenario_whitespaces,
   LexScenario_example_01,
   LexScenario_example_01_upper,
   LexScenario_block_comment,
   LexScenario_line_comment,
   LexScenario_g0,
   LexScenario_G0,
   LexScenario_tabs,
   LexScenario_signs,
   LexScenario_two_dots,
   LexScenario_superscript,
   LexScenario_two_block_comments,
   LexScenario_block_then_line_comment,
   LexScenario_line_then_block_comment,
   LexScenario_unterminated,
   LexScenario_full_buffer,
   LexScenario_long_digits,
   LexScenario_long_dots}

LexInputs == LexTexts \cup LexScenarios

\* test_reader_whitespaces
ReaderScenario_whitespaces ==
  <<"x"," ","\t"," ","y"," ","\n"," ","z">>

ReaderInputs == ReaderTexts \cup {ReaderScenario_whitespaces}

\* the characters a reader has not handed out yet
Pending(reader) == reader.current \o reader.input

\* a panic ended the program: no call follows it
LogCrashed == log # <<>> /\ log[Len(log)].res.kind = "Panic"

\* Lexer::new
LexInit ==
  /\ chars \in LexInputs
  /\ cursor = Lexer_new(chars)
  /\ log = <<>>
  /\ peeked = NotPeeked
  /\ src = <<>>
  /\ input = <<>>
  /\ out = <<>>
  /\ ret = <<>>

\* one call of Lexer::next by the caller
Lexer_next_call ==
  /\ Len(log) < Len(chars) + LexExtraCalls
  /\ ~LogCrashed
  /\ \E n \in {Lexer_next(cursor)} :
       /\ cursor' = n.reader
       /\ log' = Append(log, [res |-> n.res,
                              before |-> Pending(cursor),
                              after |-> Pending(n.reader)])
  /\ UNCHANGED <<chars, peeked, parserVars>>

LexNext == Lexer_next_call

LexSpec == LexInit /\ [][LexNext]_vars

\* what enhance returns
Enhanced(c) == [kind |-> "Char", c |-> c]

\* expect("Enhanced after end of input") fails
EnhancePanic == [kind |-> "Panic", c |-> ""]

\* lexer::Reader::new
ReaderInit ==
  /\ chars \in ReaderInputs
  /\ cursor = lexer_Reader_new(chars)
  /\ log = <<>>
  /\ peeked = NotPeeked
  /\ src = <<>>
  /\ input = <<>>
  /\ out = <<>>
  /\ ret = <<>>

\* one call of lexer::Reader::current by the caller
Reader_current ==
  /\ ~LogCrashed
  /\ peeked' = [seen |-> TRUE, value |-> current(cursor)]
  /\ UNCHANGED <<chars, cursor, log, parserVars>>

\* one call of lexer::Reader::enhance by the caller
Reader_enhance ==
  /\ ~LogCrashed
  /\ \E next \in {enhance(cursor)} :
       IF current(cursor) = <<>>
         THEN /\ log' = Append(log, [res |-> EnhancePanic,
                                     before |-> Pending(cursor),
                                     after |-> Pending(cursor)])
              /\ UNCHANGED cursor
         ELSE /\ log' = Append(log, [res |-> Enhanced(current(cursor)[1]),
                                     before |-> Pending(cursor),
                                     after |-> Pending(next)])
              /\ cursor' = next
  /\ peeked' = NotPeeked
  /\ UNCHANGED <<chars, parserVars>>

ReaderNext == Reader_current \/ Reader_enhance

ReaderSpec == ReaderInit /\ [][ReaderNext]_vars

(***************************************************************************)
(* Vocabulary of the properties.                                           *)
(***************************************************************************)
\* the calls of Parser.next that pulled a line: call k pulled src[k]
Served == {k \in 1..Len(out) : k <= Len(src)}

\* C1 as stated: MissingValue exactly when the last token of the line is a
\* Letter.
C1_Original ==
  \A k \in Served :
    out[k].kind = "MissingValue" <=>
      LET s == TokensOf(src[k])
      IN /\ s.last.kind = "None"
         /\ s.toks # <<>>
         /\ s.toks[Len(s.toks)].type = "Letter"

\* C1 (amended): Parser.next fails with MissingValue exactly when the line
\* ends while the parser awaits the number of a Letter, that is the last
\* token is a Letter and every token before it fits the state machine; no
\* block is returned for that line.
C1_MissingValue ==
  \A k \in Served :
    /\ out[k].kind = "MissingValue" <=>
         (LexesToEnd(src[k]) /\ EndState(src[k]) = "AwaitNumber")
    /\ out[k].kind = "MissingValue" => out[k].block = <<>>

\* a letter followed by a comment and then the end of the line
C1_Witness ==
  \E k \in Served :
    /\ out[k] = MissingValue
    /\ Contains(src[k], "(")
    /\ Len(TokensOf(src[k]).toks) = 1

\* C2 as stated: "G (ignored) G" fails with MissingValue.
C2_Original ==
  (src = Scenario_block_comment /\ Len(out) >= 1) => out[1] = MissingValue

\* C2 (amended): a line that is a letter, a block comment and a second
\* letter, such as "G (ignored) G", fails with UnexpectedToken carrying the
\* second letter.
C2_BlockCommentLine ==
  \A k \in Served :
    LET s == TokensOf(src[k])
    IN (/\ s.last.kind = "None"
        /\ Len(s.toks) = 2
        /\ s.toks[1].type = "Letter"
        /\ s.toks[2].type = "Letter")
       => out[k] = UnexpectedToken(s.toks[2])

C2_Witness ==
  /\ src = Scenario_block_comment
  /\ Len(out) >= 1
  /\ out[1] = UnexpectedToken(Letter("G"))

\* C3: the first token of a line that does not fit the state machine makes
\* Parser.next fail with UnexpectedToken carrying that token.
C3_UnexpectedToken ==
  \A k \in Served :
    LET toks == TokensOf(src[k]).toks
    IN \A j \in 1..Len(toks) :
         (StateAfter(toks, j) = "Reject" /\ StateAfter(toks, j - 1) # "Reject")
         => out[k] = UnexpectedToken(toks[j])

\* a number after a complete word
C3_Witness ==
  /\ src = Scenario_number_after_word
  /\ Len(out) >= 1
  /\ out[1] = UnexpectedToken(Number([mant |-> 1, scale |-> 0]))

\* the positions of the Numbers that follow a Letter N (in either case)
NPairs(toks) ==
  {i \in 2..Len(toks) :
     /\ toks[i].type = "Number"
     /\ toks[i - 1].type = "Letter"
     /\ toks[i - 1].letter \in {"N", "n"}}

MaxOf(S) == CHOOSE x \in S : \A y \in S : y <= x

\* C4: in a returned block no word has mnemonic N, and line_number is the
\* value of the last N<number> pair of the line, absent iff there is none.
C4_LineNumberLifting ==
  \A k \in Served :
    out[k].kind = "Block" =>
      LET b == out[k].block[1]
          toks == TokensOf(src[k]).toks
      IN /\ \A i \in 1..Len(b.words) : b.words[i].mnemonic \notin {"N", "n"}
         /\ (b.line_number # <<>>) <=> (NPairs(toks) # {})
         /\ NPairs(toks) # {} =>
              b.line_number = <<toks[MaxOf(NPairs(toks))].value>>

\* two N pairs with different values, the first in lower case
C4_Witness ==
  /\ src = Scenario_two_line_numbers
  /\ Len(out) >= 1
  /\ out[1].kind = "Block"
  /\ out[1].block[1].line_number = <<[mant |-> 3, scale |-> 0]>>

\* the first character of the line that is neither a space or tab nor part
\* of a comment, as an Option
RECURSIVE FirstSignificant(_)
FirstSignificant(line) ==
  IF line = <<>> THEN <<>>
  ELSE IF Head(line) \in {" ", "\t"} THEN FirstSignificant(Tail(line))
  ELSE IF Head(line) = ";" THEN <<>>
  ELSE IF Head(line) = "("
    THEN IF Contains(line, ")")
           THEN FirstSignificant(
                  SubSeq(line,
                         1 + (CHOOSE i \in 1..Len(line) : line[i] = ")" /\
                                \A j \in 1..(i - 1) : line[j] # ")"),
                         Len(line)))
           ELSE <<>>
  ELSE <<Head(line)>>

\* C5: in a returned block deleted is true iff the first non-whitespace,
\* non-comment character of the line is '/'.
C5_Deleted ==
  \A k \in Served :
    out[k].kind = "Block" =>
      (out[k].block[1].deleted <=> (FirstSignificant(src[k]) = <<"/">>))

\* '/' followed only by whitespace and a comment
C5_Witness ==
  /\ src = Scenario_deleted_comment
  /\ Len(out) >= 1
  /\ out[1] = OkBlock(Block(<<>>, TRUE, <<>>, src[1]))

\* C6: the line field of a returned block is the source line with leading
\* and trailing whitespace removed.
C6_LineTrimmed ==
  \A k \in Served :
    out[k].kind = "Block" => out[k].block[1].line = trim(src[k])

NotBlank(c) == c \notin {" ", "\t"}

\* a line that is empty, all whitespace, or whitespace around one comment
Blank(line) ==
  LET stripped == SelectSeq(line, NotBlank)
  IN \/ stripped = <<>>
     \/ stripped[1] = ";"
     \/ /\ stripped[1] = "("
        /\ stripped[Len(stripped)] = ")"
        /\ \A i \in 1..(Len(stripped) - 1) : stripped[i] # ")"

NotLineNumber(w) == w.mnemonic \notin {"N", "n"}

\* the Letter+Number pairs of a valid token stream whose letter is not N,
\* by position
ExpectedWords(toks) ==
  LET body == IF toks # <<>> /\ toks[1].type = "BlockDelete"
                THEN Tail(toks) ELSE toks
      pairs == [i \in 1..(Len(body) \div 2) |->
                  Word(body[2 * i - 1].letter, body[2 * i].value)]
  IN SelectSeq(pairs, NotLineNumber)

Min(a, b) == IF a <= b THEN a ELSE b

\* C7: call k of Parser.next pulls line k and, the line being valid, returns
\* the block of that line (an empty block for a blank or comment-only line);
\* the calls after the last line return no block.
C7_OneBlockPerLine ==
  /\ input = SubSeq(src, Min(Len(out), Len(src)) + 1, Len(src))
  /\ \A k \in 1..Len(out) :
       /\ (k <= Len(src) /\ Valid(src[k])) =>
            /\ out[k].kind = "Block"
            /\ out[k].block[1].line = src[k]
            /\ out[k].block[1].words = ExpectedWords(TokensOf(src[k]).toks)
       /\ (k <= Len(src) /\ Blank(src[k])) =>
            out[k] = OkBlock(Block(<<>>, FALSE, <<>>, src[k]))
       /\ k > Len(src) => out[k] = OkNone

\* two valid lines, one of them blank, then the call after the last line
C7_Witness ==
  /\ Len(src) = 2
  /\ Len(out) = 3
  /\ \A k \in 1..2 : Valid(src[k]) /\ out[k].kind = "Block"
  /\ \E k \in 1..2 : Blank(src[k])
  /\ \E k \in 1..2 : out[k].block[1].words # <<>>
  /\ out[3] = OkNone

IsError(res) == res.kind \in {"SyntaxError", "UnexpectedToken", "MissingValue"}

\* C8: parse_all stops at the first line that fails: the failing call is
\* its last call of Parser.next, the later lines are never pulled, and it
\* returns that error and no block.
C8_ShortCircuit ==
  ret # <<>> =>
    \A k \in 1..Len(out) :
      IsError(out[k]) =>
        /\ k = Len(out)
        /\ input = SubSeq(src, k + 1, Len(src))
        /\ ret[1] = AllErr(out[k])

\* the second of three lines fails: the third one is left in the input
C8_Witness ==
  /\ src = Scenario_failing_middle_line
  /\ ret # <<>>
  /\ ret[1] = AllErr(MissingValue)
  /\ Len(out) = 2
  /\ input = <<src[3]>>

\* C9: the words of a returned block are the Letter+Number pairs of the line
\* whose letter is not N, with upper-case mnemonics, in source order.
C9_Words ==
  \A k \in Served :
    out[k].kind = "Block" =>
      LET b == out[k].block[1]
      IN /\ b.words = ExpectedWords(TokensOf(src[k]).toks)
         /\ \A i \in 1..Len(b.words) : b.words[i].mnemonic \in UpperLetters

\* three words around a line number
C9_Witness ==
  /\ src = Scenario_line_number
  /\ Len(out) >= 1
  /\ out[1].kind = "Block"
  /\ Len(out[1].block[1].words) = 3
  /\ out[1].block[1].words[3] = Word("Y", [mant |-> 0 - 4567, scale |-> 2])

\* C10 as stated: "c1" in lower and in upper case yield identical blocks.
C10_Original ==
  (src \in CaseInputs /\ Len(out) >= 2) => out[1] = out[2]

\* C10 (amended): "c1" in lower and in upper case yield blocks with equal
\* line_number, deleted and words; the line field of each is its own source
\* text.
C10_CaseInsensitive ==
  (src \in CaseInputs /\ Len(out) >= 2) =>
    /\ out[1].kind = "Block"
    /\ out[2].kind = "Block"
    /\ out[1].block[1].line_number = out[2].block[1].line_number
    /\ out[1].block[1].deleted = out[2].block[1].deleted
    /\ out[1].block[1].words = out[2].block[1].words
    /\ out[1].block[1].line = src[1]
    /\ out[2].block[1].line = src[2]

C10_Witness ==
  /\ src = << <<"g", "1">>, <<"G", "1">> >>
  /\ Len(out) >= 2
  /\ out[1].block[1].words = <<Word("G", [mant |-> 1, scale |-> 0])>>

\* src is a valid comment-free line followed by the same line with one block
\* comment inserted between two tokens or one line comment appended
CommentPair ==
  /\ Len(src) = 2
  /\ Len(src[1]) < Len(src[2])
  /\ \A i \in 1..Len(src[1]) : src[1][i] \notin {"(", ")", ";"}
  /\ Valid(src[1])
  /\ \/ \E p \in 0..Len(src[1]) : \E c \in BlockComments :
          InterToken(src[1], p) /\ src[2] = Insert(src[1], p, c)
     \/ \E c \in LineComments : src[2] = src[1] \o c

\* C11 as stated: a valid comment-free line and the same line with one block
\* comment inserted between two tokens, or one line comment appended, yield
\* the same block.
C11_Original ==
  (CommentPair /\ Len(out) >= 2) => out[1] = out[2]

\* C11 (amended): a valid comment-free line and the same line with one block
\* comment inserted between two tokens, or one line comment appended, yield
\* blocks with equal line_number, deleted and words; the line field of each
\* is its own source text, comment included.
C11_CommentsInvisible ==
  (CommentPair /\ Len(out) >= 2) =>
    /\ out[1].kind = "Block"
    /\ out[2].kind = "Block"
    /\ out[1].block[1].line_number = out[2].block[1].line_number
    /\ out[1].block[1].deleted = out[2].block[1].deleted
    /\ out[1].block[1].words = out[2].block[1].words
    /\ out[1].block[1].line = src[1]
    /\ out[2].block[1].line = src[2]

C11_Witness ==
  /\ src = << <<"G", "1">>, <<"G", "(", ";", ")", "1">> >>
  /\ Len(out) >= 2
  /\ out[2].kind = "Block"
  /\ out[2].block[1].words = <<Word("G", [mant |-> 1, scale |-> 0])>>

\* C17: when the lexer fails on a line whose tokens up to there fit the state
\* machine (at the first token, after '/', after a letter or after a complete
\* word), Parser.next returns SyntaxError wrapping exactly that LexerError,
\* and it returns SyntaxError in no other case.
C17_SyntaxError ==
  \A k \in Served :
    LET s == TokensOf(src[k])
        raised == /\ s.last.kind = "Err"
                  /\ StateAfter(s.toks, Len(s.toks)) # "Reject"
    IN /\ raised => out[k] = SyntaxError(s.last.err[1])
       /\ out[k].kind = "SyntaxError" => raised

\* a lexer error after a complete word
C17_Witness ==
  /\ src = <<<<"G", "1", ")">>>>
  /\ Len(out) >= 1
  /\ TokensOf(src[1]).toks = <<Letter("G"), Number([mant |-> 1, scale |-> 0])>>
  /\ out[1] = SyntaxError(IllegalSymbol(")"))

\* the index of the first "(" of the line, 0 if it has none
FirstParen(line) ==
  IF Contains(line, "(")
    THEN CHOOSE i \in 1..Len(line) :
           line[i] = "(" /\ \A j \in 1..(i - 1) : line[j] # "("
    ELSE 0

\* the line holds a block comment that is opened and never closed, after
\* text without comments
Unterminated(line) ==
  /\ Contains(line, "(")
  /\ ~Contains(line, ")")
  /\ \A j \in 1..(FirstParen(line) - 1) : line[j] # ";"

\* the result r with the line field of its block, if any, set to line
WithLine(r, line) ==
  IF r.kind = "Block"
    THEN OkBlock([r.block[1] EXCEPT !.line = line]) ELSE r

\* C20: on a line with an unterminated block comment, Lexer.next at the "("
\* consumes every remaining character and returns Ok(None), the line has the
\* tokens of its text before the "(", and Parser.next returns what it returns
\* for that text alone (the block of those tokens, or the error of a line
\* ending there), with the whole line in the block's line field.
C20_UnterminatedComment ==
  \A k \in Served :
    Unterminated(src[k]) =>
      LET before == SubSeq(src[k], 1, FirstParen(src[k]) - 1)
          at == Lexer_next(Lexer_new(
                  SubSeq(src[k], FirstParen(src[k]), Len(src[k]))))
      IN /\ at.res = LexNone
         /\ at.reader.current \o at.reader.input = <<>>
         /\ TokensOf(src[k]) = TokensOf(before)
         /\ out[k] = WithLine(parse_line(before), src[k])

C20_Witness ==
  /\ src = <<<<"G", "1", "(", "N">>>>
  /\ Len(out) >= 1
  /\ Unterminated(src[1])
  /\ out[1] = OkBlock(Block(<<>>, FALSE,
                            <<Word("G", [mant |-> 1, scale |-> 0])>>,
                            <<"G", "1", "(", "N">>))

(***************************************************************************)
(* Properties of the lexer and of the reader used on their own.            *)
(***************************************************************************)
\* the values the calls of Lexer.next or enhance returned so far
Returned == [i \in 1..Len(log) |-> log[i].res]

\* s without its spaces and tabs
RECURSIVE Strip(_)
Strip(s) ==
  IF s = <<>> THEN <<>>
  ELSE IF Head(s) \in SpaceOrTab THEN Strip(Tail(s))
  ELSE <<Head(s)>> \o Strip(Tail(s))

\* the values n successive calls of Lexer.next return; a panic ends them
RECURSIVE lex_results(_, _)
lex_results(reader, n) ==
  IF n = 0 THEN <<>>
  ELSE LET r == Lexer_next(reader)
       IN IF r.res.kind = "Panic" THEN <<r.res>>
          ELSE <<r.res>> \o lex_results(r.reader, n - 1)

\* C12: the tokens and errors the calls of Lexer.next return over an input
\* are those they return over the same input with every space and tab taken
\* out, so inserting spaces or tabs anywhere changes none of them.
C12_WhitespaceIdempotence ==
  Returned = lex_results(Lexer_new(Strip(chars)), Len(log))

C12_Witness ==
  /\ chars = LexScenario_tabs
  /\ Strip(chars) = <<"G", "4", "2", ".", "3">>
  /\ Returned = <<LexToken(Letter("G")),
                  LexToken(Number([mant |-> 423, scale |-> 1])),
                  LexNone>>

DigitSignDot == Digits \cup {"+", "-", "."}

\* the maximal run of digit, sign and dot characters at the start of s,
\* spaces and tabs inside it dropped
RECURSIVE NumberRun(_)
NumberRun(s) ==
  IF s = <<>> THEN <<>>
  ELSE IF Head(s) \in SpaceOrTab THEN NumberRun(Tail(s))
  ELSE IF Head(s) \in DigitSignDot THEN <<Head(s)>> \o NumberRun(Tail(s))
  ELSE <<>>

\* C13 as stated: a call of Lexer.next that meets a numeric run of more than
\* 32 characters returns a token or a LexerError; it does not panic.
C13_LongRunNoPanic ==
  \A i \in 1..Len(log) :
    Len(NumberRun(log[i].before)) > NumberBufferCap =>
      log[i].res.kind \in {"Token", "Err"}

\* the characters C14 speaks of
AsciiAlphabet ==
  UpperLetters \cup LowerLetters \cup Digits \cup
  {"+", "-", ".", " ", "\t", "(", ")", ";", "/", "%", "\n"}

\* the calls that ended the token sequence: Ok(None) or a LexerError
Ended == {i \in 1..Len(log) : log[i].res.kind \in {"None", "Err"}}

\* C14 as stated: over an input of ASCII letters, digits, signs, dots,
\* spaces, tabs, parentheses, semicolons, '/', '%' and newlines every call of
\* Lexer.next returns, a call that returns a token consumes at least one
\* character, and Ok(None) or a LexerError is returned within as many calls
\* as the input has characters plus one.
C14_Terminates ==
  (\A j \in 1..Len(chars) : chars[j] \in AsciiAlphabet) =>
    /\ \A i \in 1..Len(log) :
         /\ log[i].res.kind \in {"Token", "None", "Err"}
         /\ log[i].res.kind = "Token" =>
              Len(log[i].after) < Len(log[i].before)
    /\ Len(log) >= Len(chars) + 1 =>
         \E i \in Ended : i <= Len(chars) + 1

\* the characters the calls of enhance returned
Handed ==
  [i \in 1..Cardinality({j \in 1..Len(log) : log[j].res.kind = "Char"}) |->
     log[i].res.c]

\* C15: the characters enhance returns are the input's characters without
\* its spaces and tabs, in order, newlines among them; current returns the
\* character the next enhance returns, or nothing at the end; and whatever
\* calls of current were made, the reader still holds exactly the rest of
\* the input.
C15_ReaderContract ==
  /\ Handed = SubSeq(Strip(chars), 1, Len(Handed))
  /\ peeked.seen =>
       peeked.value = IF Len(Handed) < Len(Strip(chars))
                        THEN <<Strip(chars)[Len(Handed) + 1]>>
                        ELSE <<>>
  /\ Strip(Pending(cursor)) =
       SubSeq(Strip(chars), Len(Handed) + 1, Len(Strip(chars)))

C15_Witness ==
  /\ chars = ReaderScenario_whitespaces
  /\ Handed = <<"x", "y", "\n", "z">>
  /\ peeked.seen
  /\ peeked.value = <<>>

\* s with its ASCII letters in upper case
Upper(s) == [i \in 1..Len(s) |-> to_ascii_uppercase(s[i])]

\* C16: every Letter token carries an upper-case ASCII letter, and an input
\* yields the tokens and errors of the same input written in upper case
\* ("g0" those of "G0").
C16_LettersUpperCase ==
  /\ \A i \in 1..Len(log) :
       (log[i].res.kind = "Token" /\ log[i].res.tok[1].type = "Letter") =>
         log[i].res.tok[1].letter \in UpperLetters
  /\ Returned = lex_results(Lexer_new(Upper(chars)), Len(log))

C16_Witness ==
  /\ chars = LexScenario_g0
  /\ Upper(chars) = LexScenario_G0
  /\ Returned = <<LexToken(Letter("G")),
                  LexToken(Number([mant |-> 0, scale |-> 0])),
                  LexNone>>

\* s after its maximal run of digit, sign and dot characters
RECURSIVE AfterRun(_)
AfterRun(s) ==
  IF s = <<>> THEN <<>>
  ELSE IF Head(s) \in SpaceOrTab \cup DigitSignDot THEN AfterRun(Tail(s))
  ELSE s

Unsigned(t) == IF t # <<>> /\ t[1] \in {"+", "-"} THEN Tail(t) ELSE t

\* [sign] ( digits [ "." [digits] ] | "." digits )
DecimalLiteral(t) ==
  /\ \A i \in 1..Len(Unsigned(t)) : Unsigned(t)[i] \in Digits \cup {"."}
  /\ \E i \in 1..Len(Unsigned(t)) : Unsigned(t)[i] \in Digits
  /\ Cardinality({i \in 1..Len(Unsigned(t)) : Unsigned(t)[i] = "."}) <= 1

\* C18 as stated: a call of Lexer.next that starts at a sign, a dot or a
\* digit consumes the maximal run of digit, sign and dot characters, spaces
\* and tabs inside it skipped, and returns Number(x) if the run is a decimal
\* literal with an optional sign and an optional fraction, InvalidNumber
\* carrying the run otherwise.
C18_NumberScanner ==
  \A i \in 1..Len(log) :
    NumberRun(log[i].before) # <<>> =>
      /\ log[i].after = AfterRun(log[i].before)
      /\ log[i].res =
           IF DecimalLiteral(NumberRun(log[i].before))
             THEN LexToken(Number(parse_f64(NumberRun(log[i].before))[1]))
             ELSE LexErr(InvalidNumber(NumberRun(log[i].before)))

\* the index of the first ")" of s, 0 if it has none
FirstClose(s) ==
  IF \E i \in 1..Len(s) : s[i] = ")"
    THEN CHOOSE i \in 1..Len(s) :
           s[i] = ")" /\ \A j \in 1..(i - 1) : s[j] # ")"
    ELSE 0

\* s starts with a block comment that a "(" or a ";" follows
CommentThenComment(s) ==
  /\ s # <<>>
  /\ s[1] = "("
  /\ FirstClose(s) > 0
  /\ FirstClose(s) < Len(s)
  /\ s[FirstClose(s) + 1] \in {"(", ";"}

\* C19: a call of Lexer.next that starts at a block comment followed,
\* spaces and tabs apart, by another block comment or by a line comment
\* skips the first comment only: it fails with IllegalSymbol of the "(" or
\* ";" that follows and leaves the reader there.
C19_OneCommentPerCall ==
  \A i \in 1..Len(log) :
    CommentThenComment(Strip(log[i].before)) =>
      /\ log[i].res =
           LexErr(IllegalSymbol(
             Strip(log[i].before)[FirstClose(Strip(log[i].before)) + 1]))
      /\ Strip(log[i].after) =
           SubSeq(Strip(log[i].before),
                  FirstClose(Strip(log[i].before)) + 1,
                  Len(Strip(log[i].before)))

C19_Witness ==
  /\ chars = LexScenario_two_block_comments
  /\ Len(log) >= 2
  /\ log[2].before = <<"(", "a", ")", " ", "(", "b", ")", " ", "1">>
  /\ log[2].res = LexErr(IllegalSymbol("("))

\* the calls that failed with IllegalSymbol
Illegal ==
  {i \in 1..Len(log) :
     log[i].res.kind = "Err" /\ log[i].res.err[1].type = "IllegalSymbol"}

\* the characters that open a comment
CommentOpeners == {"(", ";"}

\* C21 as stated: a call of Lexer.next that fails with IllegalSymbol leaves
\* the reader unchanged and every later call returns the same IllegalSymbol;
\* after a call that returned Ok(None) every later call returns Ok(None).
C21_Original ==
  \A i \in 1..Len(log) :
    /\ i \in Illegal =>
         /\ log[i].after = log[i].before
         /\ \A j \in (i + 1)..Len(log) : log[j].res = log[i].res
    /\ log[i].res = LexNone =>
         \A j \in (i + 1)..Len(log) : log[j].res = LexNone

\* C21 (amended): a call that fails with IllegalSymbol{c} leaves the reader
\* at c, unconsumed.  If c opens no comment, every later call returns the
\* same IllegalSymbol and moves nothing; if c is "(" or ";", the next call
\* skips it as the start of a comment.  After Ok(None) the input is exhausted
\* and every later call returns Ok(None).
C21_Sticky ==
  \A i \in 1..Len(log) :
    /\ i \in Illegal =>
         /\ log[i].after # <<>>
         /\ log[i].after[1] = log[i].res.err[1].symbol
         /\ log[i].res.err[1].symbol \notin CommentOpeners =>
              \A j \in (i + 1)..Len(log) :
                /\ log[j].res = log[i].res
                /\ log[j].before = log[i].after
                /\ log[j].after = log[i].after
         /\ (log[i].res.err[1].symbol \in CommentOpeners /\ i < Len(log)) =>
              /\ log[i + 1].before = log[i].after
              /\ Len(log[i + 1].after) < Len(log[i].after)
    /\ log[i].res = LexNone =>
         /\ log[i].after = <<>>
         /\ \A j \in (i + 1)..Len(log) : log[j].res = LexNone

\* an illegal symbol after a token, met three times
C21_Witness ==
  /\ chars = <<"g", ")", "1">>
  /\ Returned = <<LexToken(Letter("G")),
                  LexErr(IllegalSymbol(")")),
                  LexErr(IllegalSymbol(")")),
                  LexErr(IllegalSymbol(")"))>>
  /\ log[4].after = <<")", "1">>

====
